---- MODULE Spec2Model ----
(***************************************************************************)
(* Model of concept_APIs/fractional_pixel_extraction/                      *)
(* fractional_pixel_extraction.ipynb: a notebook executed top to bottom    *)
(* (cells 2..9), with the manual region selection between cells 3 and 4   *)
(* and the possibility of re-executing the extraction cell (cell 7).      *)
(*                                                                         *)
(* Conventions.                                                            *)
(*  - ns is the kernel namespace: the set of Python names that are bound.  *)
(*    A variable of the model whose name is not in ns holds a placeholder. *)
(*  - An uncaught exception ends the run: pc = "error", exc says which.    *)
(*  - Lengths are integers; quantities obtained by a division are kept as  *)
(*    exact fractions <<numerator, denominator>> and compared by cross     *)
(*    multiplication (RatEq).                                              *)
(*  - An image plane of a cube is the term <<"SCI", i>> or <<"ERR", i>>;   *)
(*    a photometry table is the term [data, error, aperture, method] of    *)
(*    the call that made it. The pixel arithmetic of the photometry        *)
(*    library is not part of the notebook and is not modelled.             *)
(*  - The celestial WCS is linear: world = CRVAL + CDELT * (pix - CRPIX).  *)
(***************************************************************************)
EXTENDS Integers, Sequences, FiniteSets, TLC

\* ------------------------------------------------------------------ bounds
MaxLen == 3
MaxLambda0 == 2
MaxRadius == 2
MaxRuns == 2

\* --------------------------------------------------------------- constants
\* `* 3600 * u.arcsec`: arcseconds per degree (cell 5).
ArcsecPerDeg == 3600

VARIABLES
  file,                 \* what the URL serves: status and the cube's content
  pc,                   \* the cell (or the place in cell 7) to execute next
  exc,                  \* the uncaught exception, if any
  ns,                   \* the kernel namespace
  selected,             \* the user has drawn a circular region in the viewer
  selection,            \* that region (pixel coordinates)
  pix_region,           \* cell 4
  sci, err, w,          \* cell 5
  region, aperture,     \* cell 5
  pixel_region,         \* cell 6
  spectral_axis,        \* spec1d.spectral_axis (cell 7)
  flux_sum, err_sum,    \* cell 7
  reference_wavelength, \* cell 7
  it,                   \* the zip iterator: triples already consumed
  aperture_radius,      \* cell 7, loop body
  aperture_cone,        \* cell 7, loop body
  flux, uncertainty,    \* cell 7, after the loop
  extracted_spec,       \* cell 8
  plotted,              \* cell 9
  started, completed,   \* history: the stages begun and finished so far
  runs,                 \* history: executions of cell 7 begun
  results               \* history: <<flux, uncertainty>> of each execution

vars == <<file, pc, exc, ns, selected, selection, pix_region, sci, err, w,
          region, aperture, pixel_region, spectral_axis, flux_sum, err_sum,
          reference_wavelength, it, aperture_radius, aperture_cone, flux,
          uncertainty, extracted_spec, plotted, started, completed, runs,
          results>>

\* ------------------------------------------------------------- arithmetic
Abs(n) == IF n < 0 THEN -n ELSE n

Min(a, b) == IF a <= b THEN a ELSE b

\* np.sqrt on the values of the model (perfect squares): the exact root.
Sqrt(n) == CHOOSE s \in 0..n : s * s <= n /\ (s + 1) * (s + 1) > n

\* Equality of two fractions.
RatEq(p, q) == p[1] * q[2] = q[1] * p[2]

\* ------------------------------------------------------------------ input
FileStatuses == {"missing", "unreadable", "no_err", "ok"}

\* CDELT1, CDELT2 of the celestial axes, degrees per pixel.
CDelts == {<<-1, 1>>, <<2, 2>>, <<-1, 4>>, <<4, 1>>}

CRPIX == <<1, 2>>

CRVAL == <<10, 20>>

Files == [status : FileStatuses, lambda0 : 1..MaxLambda0, nAxis : 0..MaxLen,
          nSci : 0..MaxLen, nErr : 0..MaxLen, cdelt : CDelts]

SelCenters == {<<2, 3>>, <<4, 1>>}

Selections == [center : SelCenters, radius : 1..MaxRadius]

\* hdulist["SCI"].data, hdulist["ERR"].data: the planes along the first axis.
SciCube(f) == [i \in 1..f.nSci |-> <<"SCI", i>>]

ErrCube(f) == [i \in 1..f.nErr |-> <<"ERR", i>>]

\* Spectrum1D.read(filename).spectral_axis
SpectralAxis(f) == [i \in 1..f.nAxis |-> f.lambda0 + (i - 1)]

\* wcs.WCS(hdulist[1].header).celestial
Wcs(f) == [cdelt |-> f.cdelt, crpix |-> CRPIX, crval |-> CRVAL]

\* ----------------------------------------------------------- placeholders
NoExc == [kind |-> "none", at |-> "none"]

NoPixRegion == [center |-> <<0, 0>>, radius |-> 0]

NoPixelRegion == [center |-> <<0, 0>>, radius |-> <<0, 1>>]

NoSkyRegion == [center |-> <<0, 0>>, radius |-> 0]

NoAperture == [positions |-> <<0, 0>>, r |-> 0]

NoCone == [positions |-> <<0, 0>>, r |-> <<0, 1>>]

NoWcs == [cdelt |-> <<1, 1>>, crpix |-> <<0, 0>>, crval |-> <<0, 0>>]

NoSpec == [flux |-> <<>>, spectral_axis |-> <<>>, uncertainty |-> <<>>]

\* -------------------------------------------------------------- exceptions
\* An uncaught exception: the cell stops, and so does the run.
Raise(kind, at) ==
  /\ pc' = "error"
  /\ exc' = [kind |-> kind, at |-> at]

Init ==
  /\ file \in Files
  /\ pc = "cell2"
  /\ exc = NoExc
  /\ ns = {}
  /\ selected = FALSE
  /\ selection = NoPixRegion
  /\ pix_region = NoPixRegion
  /\ sci = <<>>
  /\ err = <<>>
  /\ w = NoWcs
  /\ region = NoSkyRegion
  /\ aperture = NoAperture
  /\ pixel_region = NoPixelRegion
  /\ spectral_axis = <<>>
  /\ flux_sum = <<>>
  /\ err_sum = <<>>
  /\ reference_wavelength = 0
  /\ it = 0
  /\ aperture_radius = <<0, 1>>
  /\ aperture_cone = NoCone
  /\ flux = <<>>
  /\ uncertainty = <<>>
  /\ extracted_spec = NoSpec
  /\ plotted = FALSE
  /\ started = {}
  /\ completed = {}
  /\ runs = 0
  /\ results = <<>>

\* ----------------------------------------------------------------- cell 2
\* request.urlretrieve(url, filename=filename)
Cell2_Fetch ==
  /\ pc = "cell2"
  /\ started' = started \cup {"fetch"}
  /\ IF file.status = "missing"
       THEN /\ Raise("file", "fetch")
            /\ UNCHANGED <<ns, completed>>
       ELSE /\ pc' = "cell3"
            /\ ns' = ns \cup {"filename"}
            /\ completed' = completed \cup {"fetch"}
            /\ UNCHANGED exc
  /\ UNCHANGED <<file, selected, selection, pix_region, sci, err, w, region,
                 aperture, pixel_region, spectral_axis, flux_sum, err_sum,
                 reference_wavelength, it, aperture_radius, aperture_cone,
                 flux, uncertainty, extracted_spec, plotted, runs, results>>

\* ----------------------------------------------------------------- cell 3
\* app = gj.jglue(); app.load_data(filename); image_viewer = app.imshow(...)
Cell3_Viewer ==
  /\ pc = "cell3"
  /\ started' = started \cup {"viewer"}
  /\ IF file.status = "unreadable"
       THEN /\ Raise("file", "viewer")
            /\ ns' = ns \cup {"app"}
            /\ UNCHANGED completed
       ELSE /\ pc' = "cell4"
            /\ ns' = ns \cup {"app", "data_sci", "image_viewer"}
            /\ completed' = completed \cup {"viewer"}
            /\ UNCHANGED exc
  /\ UNCHANGED <<file, selected, selection, pix_region, sci, err, w, region,
                 aperture, pixel_region, spectral_axis, flux_sum, err_sum,
                 reference_wavelength, it, aperture_radius, aperture_cone,
                 flux, uncertainty, extracted_spec, plotted, runs, results>>

\* "Stop! Now select a circular region in the viewer above ... Then continue."
\* The user may draw the region once the viewer is shown, or go on without.
UserSelect ==
  /\ pc = "cell4"
  /\ ~selected
  /\ \E s \in Selections : selection' = s
  /\ selected' = TRUE
  /\ UNCHANGED <<file, pc, exc, ns, pix_region, sci, err, w, region, aperture,
                 pixel_region, spectral_axis, flux_sum, err_sum,
                 reference_wavelength, it, aperture_radius, aperture_cone,
                 flux, uncertainty, extracted_spec, plotted, started,
                 completed, runs, results>>

\* ----------------------------------------------------------------- cell 4
\* data.get_selection_definition(format='astropy-regions'): the selected
\* region; no region selected is the error outcome of this step.
HasSelectionAlways == TRUE

HasSelection == selected

Cell4_ReadRegion ==
  /\ pc = "cell4"
  /\ started' = started \cup {"read_region"}
  /\ IF ~HasSelection
       THEN /\ Raise("selection", "read_region")
            /\ ns' = ns \cup {"data"}
            /\ UNCHANGED <<pix_region, completed>>
       ELSE /\ pc' = "cell5"
            /\ pix_region' = selection
            /\ ns' = ns \cup {"data", "pix_region"}
            /\ completed' = completed \cup {"read_region"}
            /\ UNCHANGED exc
  /\ UNCHANGED <<file, selected, selection, sci, err, w, region, aperture,
                 pixel_region, spectral_axis, flux_sum, err_sum,
                 reference_wavelength, it, aperture_radius, aperture_cone,
                 flux, uncertainty, extracted_spec, plotted, runs, results>>

\* ----------------------------------------------------------------- cell 5
\* pixel_scale = np.sqrt(np.abs(np.prod(w.celestial.wcs.cdelt)))
PixelScale(wcs) == Sqrt(Abs(wcs.cdelt[1] * wcs.cdelt[2]))

\* w.celestial.pixel_to_world(x, y)
PixelToWorld(wcs, p) ==
  <<wcs.crval[1] + wcs.cdelt[1] * (p[1] - wcs.crpix[1]),
    wcs.crval[2] + wcs.cdelt[2] * (p[2] - wcs.crpix[2])>>

\* radius = pix_region.radius * pixel_scale * 3600 * u.arcsec
\* region = CircleSkyRegion(center, radius)
ToSkyRegion(wcs, pr) ==
  [center |-> PixelToWorld(wcs, pr.center),
   radius |-> pr.radius * PixelScale(wcs) * ArcsecPerDeg]

\* aperture = SkyCircularAperture(region.center, region.radius)
SkyCircularAperture(center, r) == [positions |-> center, r |-> r]

\* hdulist["ERR"]: a file without that extension raises KeyError.
HasErrExtAlways(f) == TRUE

HasErrExt(f) == f.status # "no_err"

Cell5_SkyAperture ==
  /\ pc = "cell5"
  /\ started' = started \cup {"transform"}
  /\ sci' = SciCube(file)
  /\ IF ~HasErrExt(file)
       THEN /\ Raise("file", "transform")
            /\ ns' = ns \cup {"sci"}
            /\ UNCHANGED <<err, w, region, aperture>>
       ELSE /\ pc' = "cell6"
            /\ err' = ErrCube(file)
            /\ w' = Wcs(file)
            /\ region' = ToSkyRegion(Wcs(file), pix_region)
            /\ aperture' = SkyCircularAperture(
                              ToSkyRegion(Wcs(file), pix_region).center,
                              ToSkyRegion(Wcs(file), pix_region).radius)
            /\ ns' = ns \cup {"sci", "err", "w", "pixel_scale", "center",
                              "radius", "region", "aperture"}
            /\ UNCHANGED exc
  /\ UNCHANGED <<file, selected, selection, pix_region, pixel_region,
                 spectral_axis, flux_sum, err_sum, reference_wavelength, it,
                 aperture_radius, aperture_cone, flux, uncertainty,
                 extracted_spec, plotted, completed, runs, results>>

\* ----------------------------------------------------------------- cell 6
\* wcs.world_to_pixel: the inverse of PixelToWorld.
WorldToPixel(wcs, c) ==
  <<wcs.crpix[1] + (c[1] - wcs.crval[1]) \div wcs.cdelt[1],
    wcs.crpix[2] + (c[2] - wcs.crval[2]) \div wcs.cdelt[2]>>

\* region.to_pixel(w.celestial): the center through the WCS, the radius in
\* degrees times the pixels per degree measured along the latitude axis at
\* the center (regions: skycoord_to_pixel_scale_angle).
ToPixel(wcs, sr) ==
  [center |-> WorldToPixel(wcs, sr.center),
   radius |-> <<sr.radius, ArcsecPerDeg * Abs(wcs.cdelt[2])>>]

Cell6_VerifyPlot ==
  /\ pc = "cell6"
  /\ pc' = "cell7"
  /\ pixel_region' = ToPixel(w, region)
  /\ ns' = ns \cup {"pixel_region", "ax", "norm"}
  /\ completed' = completed \cup {"transform"}
  /\ UNCHANGED <<file, exc, selected, selection, pix_region, sci, err, w,
                 region, aperture, spectral_axis, flux_sum, err_sum,
                 reference_wavelength, it, aperture_radius, aperture_cone,
                 flux, uncertainty, extracted_spec, plotted, started, runs,
                 results>>

\* ----------------------------------------------------------------- cell 7
\* flux_sum = []; err_sum = []
NewListKeep(old) == old

NewList(old) == <<>>

\* reference_wavelength = spec1d.spectral_axis[0]
ReferenceWavelengthLast(axis) == axis[Len(axis)]

ReferenceWavelength(axis) == axis[1]

\* zip(spec1d.spectral_axis, sci, err) stops with its shortest argument.
ZipLenShort(a, b, c) == IF Min(Len(a), Min(Len(b), Len(c))) > 0
                          THEN Min(Len(a), Min(Len(b), Len(c))) - 1
                          ELSE 0

ZipLen(a, b, c) == Min(Len(a), Min(Len(b), Len(c)))

\* aperture_radius = aperture.r * wavelength / reference_wavelength
ScaledRadiusCompounding(r, wavelength, ref) ==
  IF it = 0 THEN <<r * wavelength, ref>>
            ELSE <<aperture_radius[1] * wavelength, aperture_radius[2] * ref>>

ScaledRadius(r, wavelength, ref) == <<r * wavelength, ref>>

\* aperture_photometry(sci_slice, aperture_cone, wcs=w.celestial,
\*                     method="exact", error=err_slice)
AperturePhotometry(data, ap, wcs, method, error) ==
  [data |-> data, error |-> error, aperture |-> ap, method |-> method]

\* flux_sum.append(phot_table["aperture_sum"][0])
AppendFluxFront(list, table) ==
  <<[col |-> "aperture_sum", table |-> table]>> \o list

AppendFlux(list, table) ==
  Append(list, [col |-> "aperture_sum", table |-> table])

\* err_sum.append(phot_table["aperture_sum_err"][0])
AppendErrTwice(list, table) ==
  Append(Append(list, [col |-> "aperture_sum_err", table |-> table]),
         [col |-> "aperture_sum_err", table |-> table])

AppendErr(list, table) ==
  Append(list, [col |-> "aperture_sum_err", table |-> table])

\* Lines 171-177: read the cube, reset the lists, take the reference
\* wavelength (IndexError on an empty spectral axis).
C7_Prep ==
  /\ pc = "cell7"
  /\ runs' = runs + 1
  /\ started' = started \cup {"iterate"}
  /\ spectral_axis' = SpectralAxis(file)
  /\ flux_sum' = NewList(flux_sum)
  /\ err_sum' = NewList(err_sum)
  /\ it' = 0
  /\ IF Len(SpectralAxis(file)) = 0
       THEN /\ Raise("file", "iterate")
            /\ ns' = ns \cup {"spec1d", "flux_sum", "err_sum"}
            /\ UNCHANGED reference_wavelength
       ELSE /\ pc' = "c7_loop"
            /\ reference_wavelength' = ReferenceWavelength(SpectralAxis(file))
            /\ ns' = ns \cup {"spec1d", "flux_sum", "err_sum",
                              "reference_wavelength"}
            /\ UNCHANGED exc
  /\ UNCHANGED <<file, selected, selection, pix_region, sci, err, w, region,
                 aperture, pixel_region, aperture_radius, aperture_cone, flux,
                 uncertainty, extracted_spec, plotted, completed, results>>

\* Lines 179-185: one iteration of the loop.
C7_Iterate ==
  /\ pc = "c7_loop"
  /\ it < ZipLen(spectral_axis, sci, err)
  /\ LET wavelength == spectral_axis[it + 1]
         sci_slice == sci[it + 1]
         err_slice == err[it + 1]
         radius == ScaledRadius(aperture.r, wavelength, reference_wavelength)
         cone == SkyCircularAperture(region.center, radius)
         phot_table == AperturePhotometry(sci_slice, cone, w, "exact",
                                          err_slice)
     IN /\ aperture_radius' = radius
        /\ aperture_cone' = cone
        /\ flux_sum' = AppendFlux(flux_sum, phot_table)
        /\ err_sum' = AppendErr(err_sum, phot_table)
  /\ it' = it + 1
  /\ ns' = ns \cup {"wavelength", "sci_slice", "err_slice", "aperture_radius",
                    "aperture_cone", "phot_table"}
  /\ UNCHANGED <<file, pc, exc, selected, selection, pix_region, sci, err, w,
                 region, aperture, pixel_region, spectral_axis,
                 reference_wavelength, flux, uncertainty, extracted_spec,
                 plotted, started, completed, runs, results>>

\* Lines 187-188, once zip is exhausted:
\* flux = np.array(flux_sum) * spec1d.flux.unit
\* uncertainty = StdDevUncertainty(np.array(err_sum))
C7_Arrays ==
  /\ pc = "c7_loop"
  /\ ~(it < ZipLen(spectral_axis, sci, err))
  /\ pc' = "cell8"
  /\ flux' = flux_sum
  /\ uncertainty' = err_sum
  /\ ns' = ns \cup {"flux", "uncertainty"}
  /\ completed' = completed \cup {"iterate"}
  /\ started' = started \cup {"assemble"}
  /\ results' = Append(results, <<flux_sum, err_sum>>)
  /\ UNCHANGED <<file, exc, selected, selection, pix_region, sci, err, w,
                 region, aperture, pixel_region, spectral_axis, flux_sum,
                 err_sum, reference_wavelength, it, aperture_radius,
                 aperture_cone, extracted_spec, plotted, runs>>

\* ----------------------------------------------------------------- cell 8
\* Spectrum1D(flux=..., spectral_axis=..., uncertainty=...): the constructor
\* rejects (ValueError) a flux, an uncertainty and a spectral axis whose
\* lengths differ.
Spectrum1DAccepts(f, axis, unc) == Len(f) = Len(axis) /\ Len(unc) = Len(f)

Cell8_Assemble ==
  /\ pc = "cell8"
  /\ IF ~Spectrum1DAccepts(flux, spectral_axis, uncertainty)
       THEN /\ Raise("file", "assemble")
            /\ UNCHANGED <<extracted_spec, ns, completed>>
       ELSE /\ pc' = "cell9"
            /\ extracted_spec' = [flux |-> flux,
                                  spectral_axis |-> spectral_axis,
                                  uncertainty |-> uncertainty]
            /\ ns' = ns \cup {"extracted_spec"}
            /\ completed' = completed \cup {"assemble"}
            /\ UNCHANGED exc
  /\ UNCHANGED <<file, selected, selection, pix_region, sci, err, w, region,
                 aperture, pixel_region, spectral_axis, flux_sum, err_sum,
                 reference_wavelength, it, aperture_radius, aperture_cone,
                 flux, uncertainty, plotted, started, runs, results>>

\* ----------------------------------------------------------------- cell 9
\* ax.plot(extracted_spec.spectral_axis, extracted_spec.flux)
Cell9_Plot ==
  /\ pc = "cell9"
  /\ pc' = "done"
  /\ plotted' = TRUE
  /\ started' = started \cup {"plot"}
  /\ completed' = completed \cup {"plot"}
  /\ UNCHANGED <<file, exc, ns, selected, selection, pix_region, sci, err, w,
                 region, aperture, pixel_region, spectral_axis, flux_sum,
                 err_sum, reference_wavelength, it, aperture_radius,
                 aperture_cone, flux, uncertainty, extracted_spec, runs,
                 results>>

\* The user executes cell 7 again (same kernel, same file, same selection)
\* and goes on from there.
Rerun ==
  /\ pc \in {"cell8", "cell9", "done"}
  /\ runs < MaxRuns
  /\ pc' = "cell7"
  /\ UNCHANGED <<file, exc, ns, selected, selection, pix_region, sci, err, w,
                 region, aperture, pixel_region, spectral_axis, flux_sum,
                 err_sum, reference_wavelength, it, aperture_radius,
                 aperture_cone, flux, uncertainty, extracted_spec, plotted,
                 started, completed, runs, results>>

Next ==
  \/ Cell2_Fetch
  \/ Cell3_Viewer
  \/ UserSelect
  \/ Cell4_ReadRegion
  \/ Cell5_SkyAperture
  \/ Cell6_VerifyPlot
  \/ C7_Prep
  \/ C7_Iterate
  \/ C7_Arrays
  \/ Cell8_Assemble
  \/ Cell9_Plot
  \/ Rerun

Spec == Init /\ [][Next]_vars

(***************************************************************************)
(* Properties.                                                             *)
(***************************************************************************)

\* The shortest of three lengths, stated without the model's Min and ZipLen.
Shortest(a, b, c) == CHOOSE n \in {a, b, c} : n <= a /\ n <= b /\ n <= c

\* The for statement of cell 7 has been reached (line 179).
LoopStarted == "reference_wavelength" \in ns

\* The order of the stages the specification gives.
Stages == <<"fetch", "viewer", "read_region", "transform", "iterate",
            "assemble", "plot">>

\* C1: for every slice i the loop has processed, the radius of the aperture
\* used for it is radius(lambda0) * lambda_i / lambda0, where lambda0 is the
\* first element of the spectral axis and radius(lambda0) the radius of the
\* sky aperture built from the selected region; the loop variable holds the
\* radius of the last slice processed. The scaling never compounds.
C1_RadiusFromBase ==
  LoopStarted =>
    /\ aperture.r = region.radius
    /\ reference_wavelength = spectral_axis[1]
    /\ \A i \in 1..Len(flux_sum) :
         /\ flux_sum[i].table.aperture.r[1] * spectral_axis[1]
              = aperture.r * spectral_axis[i] * flux_sum[i].table.aperture.r[2]
         /\ i = Len(flux_sum) /\ pc = "c7_loop" =>
              aperture_radius = flux_sum[i].table.aperture.r

C1_Witness ==
  /\ pc = "c7_loop"
  /\ Len(flux_sum) >= 3
  /\ spectral_axis[3] # spectral_axis[1]

\* C2 as stated: once the loop has finished and the arrays of the output
\* spectrum are built, flux, uncertainty and spectral axis have one length,
\* whatever the lengths of spec1d.spectral_axis, sci and err.
C2_LengthsAlwaysMatch ==
  "flux" \in ns =>
    /\ Len(flux) = Len(uncertainty)
    /\ Len(flux) = Len(spectral_axis)

\* C2 as amended: flux and uncertainty have one length, that of the shortest
\* of spectral axis, sci and err; it is the length of the spectral axis
\* exactly when neither sci nor err has fewer slices than the spectral axis,
\* and only then is the output spectrum assembled.
C2_LengthsMatchShortest ==
  /\ "flux" \in ns =>
       /\ Len(flux) = Len(uncertainty)
       /\ Len(flux) = Shortest(Len(spectral_axis), Len(sci), Len(err))
       /\ Len(flux) = Len(spectral_axis)
            <=> (Len(sci) >= Len(spectral_axis)
                   /\ Len(err) >= Len(spectral_axis))
  /\ "extracted_spec" \in ns =>
       /\ Len(extracted_spec.flux) = Len(extracted_spec.spectral_axis)
       /\ Len(extracted_spec.uncertainty) = Len(extracted_spec.spectral_axis)
       /\ Len(sci) >= Len(spectral_axis)
       /\ Len(err) >= Len(spectral_axis)

C2_Witness ==
  /\ "flux" \in ns
  /\ Len(flux) >= 1
  /\ Len(flux) < Len(spectral_axis)
  /\ Len(sci) < Len(spectral_axis)

\* What C3 asks of entry i: the i-th entry of the output pairs the i-th
\* wavelength with the
\* aperture sum of the i-th science slice and the error of the i-th error
\* slice: the lists grow in spectral-axis order, flux_sum[i] and err_sum[i]
\* come from the photometry table of the same iteration, and the assembled
\* spectrum has one such entry for every wavelength of the spectral axis.
C3_EntryPairsSlice(f, e, i) ==
  /\ f.col = "aperture_sum"
  /\ e.col = "aperture_sum_err"
  /\ f.table = e.table
  /\ f.table.data = <<"SCI", i>>
  /\ f.table.data = sci[i]
  /\ f.table.error = <<"ERR", i>>
  /\ f.table.error = err[i]
  /\ f.table.aperture.r[1] * spectral_axis[1]
       = aperture.r * spectral_axis[i] * f.table.aperture.r[2]

\* C3: every entry of the lists, and every wavelength's entry of the
\* assembled spectrum, pairs the i-th wavelength, science slice and error
\* slice, in spectral-axis order, flux and error from the same iteration.
C3_OutputPairsSlices ==
  /\ pc \in {"c7_loop", "cell8"} =>
       /\ Len(flux_sum) = it
       /\ \A i \in 1..Len(flux_sum) :
            i <= Len(err_sum) /\ C3_EntryPairsSlice(flux_sum[i], err_sum[i], i)
  /\ "extracted_spec" \in ns =>
       /\ extracted_spec.spectral_axis = spectral_axis
       /\ spectral_axis = [i \in 1..file.nAxis |-> file.lambda0 + (i - 1)]
       /\ DOMAIN extracted_spec.flux = DOMAIN spectral_axis
       /\ DOMAIN extracted_spec.uncertainty = DOMAIN spectral_axis
       /\ \A i \in DOMAIN spectral_axis :
            C3_EntryPairsSlice(extracted_spec.flux[i],
                               extracted_spec.uncertainty[i], i)

C3_Witness ==
  /\ "extracted_spec" \in ns
  /\ Len(extracted_spec.flux) >= 2
  /\ plotted

\* C4: a stage begins only when the stage before it has completed, in the
\* order fetch, viewer, read region, transform, iterate, assemble, plot; the
\* region is read only after the user has selected one, and the extraction
\* loop starts only when the sky aperture exists.
C4_StagesInOrder ==
  /\ completed \subseteq started
  /\ \A k \in 2..Len(Stages) :
       Stages[k] \in started => Stages[k - 1] \in completed
  /\ "pix_region" \in ns => selected /\ pix_region = selection
  /\ "iterate" \in started => "aperture" \in ns /\ "region" \in ns
  /\ plotted => "extracted_spec" \in ns

C4_Witness ==
  /\ pc = "done"
  /\ plotted
  /\ completed = {Stages[k] : k \in 1..Len(Stages)}

\* C5 as stated: the error outcomes are a missing or malformed file and a
\* missing selection; either ends the run before the extraction loop starts,
\* with no flux list, error list or output spectrum produced or plotted.
C5_ErrorsBeforeLoop ==
  pc = "error" =>
    /\ exc.kind \in {"file", "selection"}
    /\ ~LoopStarted
    /\ flux_sum = <<>> /\ err_sum = <<>>
    /\ flux = <<>> /\ uncertainty = <<>>
    /\ "extracted_spec" \notin ns
    /\ ~plotted

\* The error outcomes of C5 as amended: a missing or malformed file and a
\* missing selection, and an error is never retried or recovered. A missing
\* file, an unreadable file, a file without its ERR extension or with an
\* empty spectral axis, and a missing selection end the run before the loop
\* starts, with nothing in the lists. A file whose spectral axis is longer
\* than its sci or err cube is not rejected before the loop: the lists are
\* filled from the common prefix and the error comes when the spectrum is
\* assembled; no spectrum is assembled or plotted from them.
C5_ErrorState ==
  pc = "error" =>
    /\ exc.kind \in {"file", "selection"}
    /\ exc.kind = "selection" <=> (exc.at = "read_region" /\ ~selected)
    /\ exc.at \in {"fetch", "viewer", "read_region", "transform", "iterate",
                   "assemble"}
    /\ "extracted_spec" \notin ns
    /\ ~plotted
    /\ exc.at # "assemble" =>
         /\ ~LoopStarted
         /\ flux_sum = <<>> /\ err_sum = <<>>
         /\ flux = <<>> /\ uncertainty = <<>>
    /\ exc.at = "assemble" =>
         /\ LoopStarted
         /\ Len(sci) < Len(spectral_axis) \/ Len(err) < Len(spectral_axis)
         /\ Len(flux) = Shortest(Len(spectral_axis), Len(sci), Len(err))

C5_BadInputStopsEarly ==
  LoopStarted => file.status = "ok" /\ selected /\ file.nAxis > 0

\* C5 as amended: the error outcomes are as described above in every state,
\* and a run that has ended in an error stays there (no retry, no recovery).
C5_ErrorsAmended ==
  /\ [](C5_ErrorState /\ C5_BadInputStopsEarly)
  /\ [][pc = "error" => pc' = "error"]_vars

C5_Witness ==
  /\ pc = "error"
  /\ exc.at = "assemble"
  /\ Len(flux) >= 1

\* C6: converting the selected pixel circle to the sky region and that region
\* back to pixels with the same WCS gives the center and the radius of the
\* selection, for every pixel scale.
C6_RoundTrip ==
  "pixel_region" \in ns =>
    /\ pixel_region.center = pix_region.center
    /\ pixel_region.radius[1] = pix_region.radius * pixel_region.radius[2]

\* The counts of C8: the loop ends after exactly min(len(spectral_axis),
\* len(sci),
\* len(err)) iterations; after k iterations flux_sum and err_sum have length
\* k, each iteration adding one element to each; while triples remain the
\* loop can take its next iteration, and it can leave once none remains.
C8_Counts ==
  /\ pc = "c7_loop" =>
       /\ Len(flux_sum) = it /\ Len(err_sum) = it
       /\ it <= Shortest(Len(spectral_axis), Len(sci), Len(err))
       /\ it < Shortest(Len(spectral_axis), Len(sci), Len(err))
            => ENABLED C7_Iterate
       /\ it = Shortest(Len(spectral_axis), Len(sci), Len(err))
            => ENABLED C7_Arrays /\ ~ENABLED C7_Iterate
  /\ pc = "cell8" =>
       /\ it = Shortest(Len(spectral_axis), Len(sci), Len(err))
       /\ Len(flux_sum) = it /\ Len(err_sum) = it

\* C8: the counts above hold in every state, and every iteration adds
\* exactly one to the iteration count, to flux_sum and to err_sum, so the
\* loop ends after min(len(spectral_axis), len(sci), len(err)) iterations.
C8_LoopTerminatesAtMin ==
  /\ []C8_Counts
  /\ [][pc = "c7_loop" /\ pc' = "c7_loop" =>
          /\ it' = it + 1
          /\ Len(flux_sum') = Len(flux_sum) + 1
          /\ Len(err_sum') = Len(err_sum) + 1]_vars

C8_Witness ==
  /\ pc = "cell8"
  /\ it >= 2
  /\ it < Len(spectral_axis)

\* The apertures of C9: the loop leaves the base aperture, the sky region,
\* the reference
\* wavelength and the sci and err cubes unchanged; every per-slice aperture
\* has the center of the selected region, and the aperture of the first slice
\* has exactly the selected radius.
C9_LoopState ==
  LoopStarted =>
    /\ aperture = [positions |-> region.center, r |-> region.radius]
    /\ \A i \in 1..Len(flux_sum) :
         flux_sum[i].table.aperture.positions = region.center
    /\ Len(flux_sum) >= 1 =>
         flux_sum[1].table.aperture.r[1]
           = region.radius * flux_sum[1].table.aperture.r[2]

\* C9: the per-slice apertures are as described above in every state, and
\* no step taken in the loop changes aperture, region, reference_wavelength,
\* sci or err.
C9_LoopFrame ==
  /\ []C9_LoopState
  /\ [][pc = "c7_loop" =>
          /\ aperture' = aperture
          /\ region' = region
          /\ reference_wavelength' = reference_wavelength
          /\ sci' = sci
          /\ err' = err]_vars

C9_Witness ==
  /\ pc = "c7_loop"
  /\ Len(flux_sum) >= 2
  /\ flux_sum[2].table.aperture.r[1]
       # region.radius * flux_sum[2].table.aperture.r[2]

\* C10: every execution of the extraction cell starts from empty lists and
\* ends with the same flux and uncertainty arrays as the first one.
C10_RerunIdempotent ==
  /\ pc = "c7_loop" /\ it = 0 => flux_sum = <<>> /\ err_sum = <<>>
  /\ \A k \in 1..Len(results) :
       /\ results[k] = results[1]
       /\ Len(results[k][1])
            = Shortest(Len(spectral_axis), Len(sci), Len(err))
       /\ Len(results[k][2]) = Len(results[k][1])
  /\ pc \in {"cell8", "cell9", "done"} /\ Len(results) >= 1 =>
       <<flux, uncertainty>> = results[1]

C10_Witness ==
  /\ Len(results) >= 2
  /\ Len(results[2][1]) >= 2
  /\ pc = "done"

====
